---- MODULE Spec2Model ----
(***************************************************************************)
(* The useFacts hook (frontend/src/hooks/useFacts.ts): an in-memory list   *)
(* of fact records held in React state, a performAction dispatcher that    *)
(* hands a functional updater to setFacts, and a no-op refresh.            *)
(*                                                                         *)
(* React's part is modelled as the hook's update queue: setFacts(updater)  *)
(* enqueues the updater; a render runs the queued updaters in call order,  *)
(* each on the value left by the previous one, and the hook then returns   *)
(* the new facts.  The async performAction resolves as soon as its body    *)
(* has run, so its completion signal is delivered either before or after   *)
(* that render, depending on where the caller runs.                        *)
(***************************************************************************)
EXTENDS Integers, Sequences, FiniteSets, TLC

\* Bounds of the model.
MaxPending == 2      \* updaters queued, and completion signals in flight
MaxClock == 1        \* the clock runs 0..MaxClock milliseconds after the epoch
MaxLog == 4          \* performAction calls made while the history is kept

\* Inputs.  A text is its sequence of UTF-16 code units.
Ids == {"a", "b", "c"}

\* The code units String.prototype.trim strips: \t \n \v \f \r, space,
\* U+00A0, U+1680, U+2000..U+200A, U+2028, U+2029, U+202F, U+205F, U+3000,
\* U+FEFF.
WhiteSpace ==
    {9, 10, 11, 12, 13, 32, 160, 5760} \cup (8192..8202)
        \cup {8232, 8233, 8239, 8287, 12288, 65279}

\* undefined, the value of an absent factText: no sequence of code units.
Undefined == <<-1>>

TextX == <<160, 120, 9>>            \* "\u00A0x\t"
TextY == <<121, 32>>                \* "y "
TextYZ == <<13, 121, 32, 122, 8232>>  \* "\ry z\u2028"
TextBlank == <<32, 13, 12288>>      \* " \r\u3000"
FactTexts == { <<>>, TextBlank, TextX, TextY }

\* FactAction (factText is optional).  Id "a" is saved with every text and
\* with none; ids "b" and "c" are saved with one text, and "b" with a
\* factText that is undefined; "a" and "b" are discarded.
UndefinedSaves == [type : {"save"}, factId : {"b"}, factText : {Undefined}]
SaveActions ==
    [type : {"save"}, factId : {"a"}, factText : FactTexts]
        \cup [type : {"save"}, factId : {"a"}]
        \cup [type : {"save"}, factId : {"b", "c"}, factText : {TextYZ}]
        \cup UndefinedSaves
DiscardActions == [type : {"discard"}, factId : {"a", "b"}]
FactAction == SaveActions \cup DiscardActions

VARIABLES
    facts,           \* the facts value the hook returned at its last render
    currentFacts,    \* the hook state React holds (the updater's argument)
    queue,           \* updaters handed to setFacts and not yet run, as their actions
    rendering,       \* a render is running the queued updaters
    pendingSignals,  \* resolved performAction promises not yet delivered
    now,             \* Date.now()
    last,            \* history: the updater run last in the render in progress,
                     \* or the refresh call made since the last render
    other,           \* a second instance of the hook: its facts, hook state,
                     \* update queue and render flag
    failure,         \* the exception an updater has thrown out of a render,
                     \* "none" while none has
    log              \* history: the actions whose updaters have run, in
                     \* order, with the time each ran

vars == <<facts, currentFacts, queue, rendering, pendingSignals, now, last,
          other, failure, log>>

----------------------------------------------------------------------------
\* String.prototype.trim, on texts as sequences of code units.
RECURSIVE TrimStart(_)
TrimStart(s) ==
    IF s # <<>> /\ Head(s) \in WhiteSpace THEN TrimStart(Tail(s)) ELSE s

RECURSIVE TrimEnd(_)
TrimEnd(s) ==
    IF s # <<>> /\ s[Len(s)] \in WhiteSpace
    THEN TrimEnd(SubSeq(s, 1, Len(s) - 1))
    ELSE s

TrimStartOnly(s) == TrimStart(s)
Trim(s) == TrimEnd(TrimStart(s))

\* action.factText: the value of the field, undefined when it is absent.
FactText(action) ==
    IF "factText" \in DOMAIN action THEN action.factText ELSE Undefined

\* action.factText ?? ""
FactTextNoDefault(action) == FactText(action)
FactTextOrEmpty(action) ==
    IF FactText(action) = Undefined THEN <<>> ELSE FactText(action)

\* The updater throws: of the calls it makes (trim, some, filter,
\* toISOString), some and filter are made on the collection React passes and
\* toISOString on the current date, which are always defined; trim is made
\* on the value of (action.factText ?? ""), and a method call on undefined
\* throws a TypeError.
UpdaterThrows(action) ==
    action.type = "save" /\ FactTextOrEmpty(action) = Undefined

\* new Date().toISOString() for a clock of t milliseconds, t < 1000.
Digit(d) ==
    CASE d = 0 -> "0" [] d = 1 -> "1" [] d = 2 -> "2" [] d = 3 -> "3"
      [] d = 4 -> "4" [] d = 5 -> "5" [] d = 6 -> "6" [] d = 7 -> "7"
      [] d = 8 -> "8" [] d = 9 -> "9"
ToISOString(t) ==
    "1970-01-01T00:00:00." \o Digit(t \div 100) \o Digit((t \div 10) % 10)
        \o Digit(t % 10) \o "Z"

HasId(fs, id) == \E i \in 1..Len(fs) : fs[i].id = id

NewFact(action, text, t) ==
    [id |-> action.factId, text |-> text, status |-> "saved",
     createdAt |-> ToISOString(t)]

KeepOthers(fs, id) == SelectSeq(fs, LAMBDA fact : fact.id # id)

\* Mutants of the updater.
UpdaterNoDupCheck(cur, action, t) ==
    IF action.type = "save"
    THEN LET text == Trim(FactTextOrEmpty(action)) IN
         IF text = <<>> THEN cur ELSE Append(cur, NewFact(action, text, t))
    ELSE KeepOthers(cur, action.factId)
UpdaterPrepend(cur, action, t) ==
    IF action.type = "save"
    THEN LET text == Trim(FactTextOrEmpty(action)) IN
         IF text = <<>> \/ HasId(cur, action.factId)
         THEN cur
         ELSE <<NewFact(action, text, t)>> \o cur
    ELSE KeepOthers(cur, action.factId)
UpdaterOverwrite(cur, action, t) ==
    IF action.type = "save"
    THEN LET text == Trim(FactTextOrEmpty(action)) IN
         IF text = <<>> THEN cur
         ELSE IF HasId(cur, action.factId)
         THEN [i \in 1..Len(cur) |->
                  IF cur[i].id = action.factId
                  THEN [cur[i] EXCEPT !.text = text] ELSE cur[i]]
         ELSE Append(cur, NewFact(action, text, t))
    ELSE KeepOthers(cur, action.factId)
UpdaterKeepsMatch(cur, action, t) ==
    IF action.type = "save"
    THEN LET text == Trim(FactTextOrEmpty(action)) IN
         IF text = <<>> \/ HasId(cur, action.factId)
         THEN cur
         ELSE Append(cur, NewFact(action, text, t))
    ELSE SelectSeq(cur, LAMBDA fact : fact.id = action.factId)
UpdaterSwapRemove(cur, action, t) ==
    IF action.type = "save"
    THEN LET text == Trim(FactTextOrEmpty(action)) IN
         IF text = <<>> \/ HasId(cur, action.factId)
         THEN cur
         ELSE Append(cur, NewFact(action, text, t))
    ELSE IF HasId(cur, action.factId)
         THEN LET p == CHOOSE i \in 1..Len(cur) : cur[i].id = action.factId IN
              SubSeq([cur EXCEPT ![p] = cur[Len(cur)]], 1, Len(cur) - 1)
         ELSE cur
UpdaterSplice(cur, action, t) ==
    IF action.type = "save"
    THEN LET text == Trim(FactTextOrEmpty(action)) IN
         IF text = <<>> \/ HasId(cur, action.factId)
         THEN cur
         ELSE Append(cur, NewFact(action, text, t))
    ELSE IF HasId(cur, action.factId)
         THEN KeepOthers(cur, action.factId)
         ELSE SubSeq(cur, 1, Len(cur) - 1)
UpdaterRestamp(cur, action, t) ==
    IF action.type = "save"
    THEN LET text == Trim(FactTextOrEmpty(action)) IN
         IF text = <<>> THEN cur
         ELSE IF HasId(cur, action.factId)
         THEN [i \in 1..Len(cur) |->
                  IF cur[i].id = action.factId
                  THEN [cur[i] EXCEPT !.createdAt = ToISOString(t)] ELSE cur[i]]
         ELSE Append(cur, NewFact(action, text, t))
    ELSE KeepOthers(cur, action.factId)
UpdaterLastWins(cur, action, t) ==
    IF action.type = "save"
    THEN LET text == Trim(FactTextOrEmpty(action)) IN
         IF text = <<>> THEN cur
         ELSE Append(KeepOthers(cur, action.factId), NewFact(action, text, t))
    ELSE KeepOthers(cur, action.factId)
UpdaterSoftDelete(cur, action, t) ==
    IF action.type = "save"
    THEN LET text == Trim(FactTextOrEmpty(action)) IN
         IF text = <<>> \/ HasId(cur, action.factId)
         THEN cur
         ELSE Append(cur, NewFact(action, text, t))
    ELSE [i \in 1..Len(cur) |->
             IF cur[i].id = action.factId
             THEN [cur[i] EXCEPT !.status = "discarded"] ELSE cur[i]]
UpdaterDiscardFirst(cur, action, t) ==
    IF action.type = "save"
    THEN LET text == Trim(FactTextOrEmpty(action)) IN
         IF text = <<>> \/ HasId(cur, action.factId)
         THEN cur
         ELSE Append(cur, NewFact(action, text, t))
    ELSE IF HasId(cur, action.factId) THEN Tail(cur) ELSE cur

\* The updater passed to setFacts.
Updater(cur, action, t) ==
    IF action.type = "save"
    THEN LET text == Trim(FactTextOrEmpty(action)) IN
         IF text = <<>> \/ HasId(cur, action.factId)
         THEN cur
         ELSE Append(cur, NewFact(action, text, t))
    ELSE KeepOthers(cur, action.factId)

----------------------------------------------------------------------------
NoStep == [op |-> "none"]

\* A hook instance as useState leaves it on mount.
NoStore ==
    [facts |-> <<>>, currentFacts |-> <<>>, queue |-> <<>>, rendering |-> FALSE]

Init ==
    /\ facts = <<>>
    /\ currentFacts = <<>>
    /\ queue = <<>>
    /\ rendering = FALSE
    /\ pendingSignals = 0
    /\ now = 0
    /\ last = NoStep
    /\ other = NoStore
    /\ failure = "none"
    /\ log = <<>>

\* performAction(action): setFacts(updater) enqueues the updater, and the
\* async function returns a promise that is already resolved.  The body
\* creates the updater and hands it over without running it, so nothing in
\* the call can throw and reject the promise.
PerformActionNoEnqueue(action) ==
    /\ ~rendering
    /\ Len(queue) < MaxPending
    /\ pendingSignals < MaxPending
    /\ pendingSignals' = pendingSignals + 1
    /\ UNCHANGED <<failure, other, log, facts, currentFacts, queue, rendering, now, last>>
PerformActionShared(action) ==
    /\ ~rendering
    /\ Len(queue) < MaxPending
    /\ pendingSignals < MaxPending
    /\ queue' = Append(queue, action)
    /\ pendingSignals' = pendingSignals + 1
    /\ other' = [other EXCEPT !.queue =
                     IF Len(@) < MaxPending /\ ~other.rendering
                     THEN Append(@, action) ELSE @]
    /\ UNCHANGED <<failure, log, facts, currentFacts, rendering, now, last>>
PerformAction(action) ==
    /\ ~rendering
    /\ Len(queue) < MaxPending
    /\ pendingSignals < MaxPending
    /\ queue' = Append(queue, action)
    /\ pendingSignals' = pendingSignals + 1
    /\ UNCHANGED <<failure, other, log, facts, currentFacts, rendering, now, last>>

\* The caller's continuation runs: the oldest undelivered completion signal
\* is delivered.
Deliver ==
    /\ ~rendering
    /\ pendingSignals > 0
    /\ pendingSignals' = pendingSignals - 1
    /\ UNCHANGED <<failure, other, log, facts, currentFacts, queue, rendering, now, last>>

\* A render runs the oldest queued updater on the current hook state.  An
\* updater that throws leaves the hook state as it was and the exception
\* leaves the render.
ApplyUpdateStale ==
    /\ queue # <<>>
    /\ rendering' = TRUE
    /\ currentFacts' = Updater(facts, Head(queue), now)
    /\ queue' = Tail(queue)
    /\ last' = [op |-> "update", action |-> Head(queue), before |-> currentFacts]
    /\ UNCHANGED <<failure, other, log, facts, pendingSignals, now>>
RunUpdate ==
    /\ queue # <<>>
    /\ rendering' = TRUE
    /\ IF UpdaterThrows(Head(queue))
       THEN /\ failure' = "TypeError"
            /\ currentFacts' = currentFacts
       ELSE /\ failure' = failure
            /\ currentFacts' = Updater(currentFacts, Head(queue), now)
    /\ queue' = Tail(queue)
    /\ last' = [op |-> "update", action |-> Head(queue), before |-> currentFacts]
    /\ UNCHANGED <<other, facts, pendingSignals, now>>
ApplyUpdate == RunUpdate /\ UNCHANGED log

\* The render ends: the hook returns the new state as facts.
EndRenderStale ==
    /\ rendering
    /\ queue = <<>>
    /\ rendering' = FALSE
    /\ last' = NoStep
    /\ UNCHANGED <<failure, other, log, facts, currentFacts, queue, pendingSignals, now>>
EndRender ==
    /\ rendering
    /\ queue = <<>>
    /\ facts' = currentFacts
    /\ rendering' = FALSE
    /\ last' = NoStep
    /\ UNCHANGED <<failure, other, log, currentFacts, queue, pendingSignals, now>>

\* refresh(): empty body.
RefreshReload ==
    /\ ~rendering
    /\ last' = [op |-> "refresh"]
    /\ facts' = <<>>
    /\ currentFacts' = <<>>
    /\ UNCHANGED <<failure, other, log, queue, rendering, pendingSignals, now>>
Refresh ==
    /\ ~rendering
    /\ last' = [op |-> "refresh"]
    /\ UNCHANGED <<failure, other, log, facts, currentFacts, queue, rendering, pendingSignals, now>>

\* Time passes.
Tick ==
    /\ now < MaxClock
    /\ now' = now + 1
    /\ UNCHANGED <<failure, other, log, facts, currentFacts, queue, rendering, pendingSignals, last>>

Next ==
    \/ \E action \in FactAction : PerformAction(action)
    \/ Deliver
    \/ ApplyUpdate
    \/ EndRender
    \/ Refresh
    \/ Tick

Spec == Init /\ [][Next]_vars

----------------------------------------------------------------------------
\* Two instances of the hook.  The second instance runs the same code on
\* its own useState cell; its completion signals and exceptions are not
\* followed, and the clock stands still.

\* Actions dispatched when two instances are mounted.
TwoActions ==
    { [type |-> "save", factId |-> "a", factText |-> TextX],
      [type |-> "save", factId |-> "b", factText |-> TextYZ],
      [type |-> "discard", factId |-> "a"] }

PerformActionOther(action) ==
    /\ ~other.rendering
    /\ Len(other.queue) < MaxPending
    /\ other' = [other EXCEPT !.queue = Append(@, action)]
    /\ UNCHANGED <<failure, log, facts, currentFacts, queue, rendering, pendingSignals,
                   now, last>>

ApplyUpdateOther ==
    /\ other.queue # <<>>
    /\ other' = [other EXCEPT
                     !.currentFacts = Updater(@, Head(other.queue), now),
                     !.queue = Tail(@),
                     !.rendering = TRUE]
    /\ UNCHANGED <<failure, log, facts, currentFacts, queue, rendering, pendingSignals,
                   now, last>>

EndRenderOther ==
    /\ other.rendering
    /\ other.queue = <<>>
    /\ other' = [other EXCEPT !.facts = other.currentFacts, !.rendering = FALSE]
    /\ UNCHANGED <<failure, log, facts, currentFacts, queue, rendering, pendingSignals,
                   now, last>>

RefreshOther ==
    /\ ~other.rendering
    /\ ~rendering
    /\ last' = [op |-> "refreshOther"]
    /\ UNCHANGED <<failure, other, log, facts, currentFacts, queue, rendering,
                   pendingSignals, now>>

NextTwo ==
    \/ \E action \in TwoActions : PerformAction(action)
    \/ Deliver
    \/ ApplyUpdate
    \/ EndRender
    \/ Refresh
    \/ \E action \in TwoActions : PerformActionOther(action)
    \/ ApplyUpdateOther
    \/ EndRenderOther
    \/ RefreshOther

SpecTwo == Init /\ [][NextTwo]_vars

----------------------------------------------------------------------------
\* The hook with the action history kept: every updater a render runs is
\* logged with the time it ran.  At most MaxLog calls are made, and the
\* clock stands still.  A save with no text is dispatched with the factText
\* field absent only.
LoggedActions == FactAction \ UndefinedSaves

PerformActionLogged(action) ==
    /\ Len(log) + Len(queue) < MaxLog
    /\ PerformAction(action)

ApplyUpdateLogged ==
    /\ RunUpdate
    /\ log' = Append(log, [action |-> Head(queue), at |-> now])

NextLog ==
    \/ \E action \in LoggedActions : PerformActionLogged(action)
    \/ Deliver
    \/ ApplyUpdateLogged
    \/ EndRender

SpecLog == Init /\ [][NextLog]_vars

----------------------------------------------------------------------------
\* Vocabulary of the properties.

\* The step runs the oldest queued updater (only ApplyUpdate shortens the queue).
UpdateStep == queue # <<>> /\ queue' = Tail(queue)
\* The action whose updater such a step runs.
Applied == Head(queue)
AppliedText == Trim(FactTextOrEmpty(Applied))

IdsOf(fs) == {fs[i].id : i \in 1..Len(fs)}
PosOf(fs, id) == CHOOSE i \in 1..Len(fs) : fs[i].id = id
Without(fs, i) == SubSeq(fs, 1, i - 1) \o SubSeq(fs, i + 1, Len(fs))

UniqueIds(fs) ==
    \A i, j \in 1..Len(fs) : i # j => fs[i].id # fs[j].id
Trimmed(text) ==
    /\ text # <<>>
    /\ text[1] \notin WhiteSpace
    /\ text[Len(text)] \notin WhiteSpace

\* The collection that results from running the updaters of q, in order, on fs.
RECURSIVE ApplyAll(_, _, _)
ApplyAll(fs, q, t) ==
    IF q = <<>> THEN fs ELSE ApplyAll(Updater(fs, Head(q), t), Tail(q), t)

\* The history says an updater has just run for a save / a discard.
RanSave == last.op = "update" /\ last.action.type = "save"
RanDiscard == last.op = "update" /\ last.action.type = "discard"

----------------------------------------------------------------------------
\* C1: after any sequence of performAction and refresh calls, no two records
\* of the collection (the hook state, and the facts the hook returned) have
\* the same id.
C1_UniqueIds == UniqueIds(currentFacts) /\ UniqueIds(facts)

\* A save of an id already held, with a non-empty text, has run on a
\* collection of two records.
C1_Witness ==
    /\ RanSave
    /\ HasId(last.before, last.action.factId)
    /\ Trim(FactTextOrEmpty(last.action)) # <<>>
    /\ Len(currentFacts) = 2

\* C2: every record's text is non-empty and has no leading or trailing
\* whitespace, whatever factText was passed to save.
C2_TextsTrimmed ==
    /\ \A i \in 1..Len(currentFacts) : Trimmed(currentFacts[i].text)
    /\ \A i \in 1..Len(facts) : Trimmed(facts[i].text)

\* A save whose factText has whitespace on both sides has appended a record.
C2_Witness ==
    /\ RanSave
    /\ last.action = [type |-> "save", factId |-> "a", factText |-> TextX]
    /\ currentFacts # last.before
    /\ currentFacts[Len(currentFacts)].text = <<120>>

\* C3: a save with a non-empty trimmed text and an id not in the collection
\* appends exactly one record {id, trimmed text, "saved"} at the end and
\* leaves the records already held unchanged and in the same order.
C3_SaveAppends ==
    [][(/\ UpdateStep
        /\ Applied.type = "save"
        /\ AppliedText # <<>>
        /\ ~HasId(currentFacts, Applied.factId))
       => /\ Len(currentFacts') = Len(currentFacts) + 1
          /\ SubSeq(currentFacts', 1, Len(currentFacts)) = currentFacts
          /\ currentFacts'[Len(currentFacts')].id = Applied.factId
          /\ currentFacts'[Len(currentFacts')].text = AppliedText
          /\ currentFacts'[Len(currentFacts')].status = "saved"]_vars

\* Such a save has run on a collection that already held a record.
C3_Witness ==
    /\ RanSave
    /\ last.before # <<>>
    /\ ~HasId(last.before, last.action.factId)
    /\ Len(currentFacts) = Len(last.before) + 1
    /\ currentFacts[Len(currentFacts)].id = last.action.factId

\* C4: a save whose factText is missing, empty or all whitespace, or whose
\* id is already in the collection, leaves the collection unchanged (so a
\* second save of an id keeps the first text).
C4_SaveRejected ==
    [][(/\ UpdateStep
        /\ Applied.type = "save"
        /\ (AppliedText = <<>> \/ HasId(currentFacts, Applied.factId)))
       => currentFacts' = currentFacts]_vars

\* A save of a held id with a different, non-empty text has run and the
\* first text is still there.
C4_Witness ==
    /\ RanSave
    /\ HasId(last.before, last.action.factId)
    /\ Trim(FactTextOrEmpty(last.action)) # <<>>
    /\ last.before[PosOf(last.before, last.action.factId)].text
           # Trim(FactTextOrEmpty(last.action))
    /\ currentFacts = last.before

\* C5: a discard of an id in the collection yields the collection without
\* that record: no record has the id, the length is one less, every other
\* record is unchanged and in the same relative order.
C5_DiscardRemoves ==
    [][(/\ UpdateStep
        /\ Applied.type = "discard"
        /\ HasId(currentFacts, Applied.factId))
       => /\ ~HasId(currentFacts', Applied.factId)
          /\ Len(currentFacts') = Len(currentFacts) - 1
          /\ currentFacts'
                 = Without(currentFacts, PosOf(currentFacts, Applied.factId))]_vars

\* A discard has removed the middle record of three.
C5_Witness ==
    /\ RanDiscard
    /\ Len(last.before) = 3
    /\ last.before[2].id = last.action.factId
    /\ currentFacts = <<last.before[1], last.before[3]>>

\* C6: a discard of an id that is not in the collection leaves it unchanged.
C6_DiscardUnknownNoOp ==
    [][(/\ UpdateStep
        /\ Applied.type = "discard"
        /\ ~HasId(currentFacts, Applied.factId))
       => currentFacts' = currentFacts]_vars

\* Such a discard has run on a collection of two records.
C6_Witness ==
    /\ RanDiscard
    /\ Len(last.before) = 2
    /\ ~HasId(last.before, last.action.factId)
    /\ currentFacts = last.before

\* C7: records appear in the order their saves were applied: in every step
\* a record that enters the collection is placed after all the records held,
\* and records held before and after the step keep their relative order.
C7_OrderPreserved ==
    [][currentFacts' # currentFacts =>
          /\ \A i \in 1..Len(currentFacts') :
                 currentFacts'[i].id \notin IdsOf(currentFacts)
                     => i = Len(currentFacts')
          /\ \A i, j \in 1..Len(currentFacts') :
                 i < j =>
                     \A k, l \in 1..Len(currentFacts) :
                         (/\ currentFacts[k].id = currentFacts'[i].id
                          /\ currentFacts[l].id = currentFacts'[j].id)
                             => k < l]_vars

\* "a" was saved again after its discard and now follows the two records
\* that were saved after its first save.
C7_Witness ==
    /\ RanSave
    /\ last.action.factId = "a"
    /\ Len(last.before) = 2
    /\ Len(currentFacts) = 3
    /\ currentFacts[3].id = "a"
    /\ SubSeq(currentFacts, 1, 2) = last.before

\* C8: refresh() never changes the collection, in any state and however
\* often it is called.
C8_RefreshNoEffect ==
    [][(last.op # "refresh" /\ last'.op = "refresh")
          => UNCHANGED <<facts, currentFacts, queue>>]_vars

\* refresh has been called with records held and an update pending.
C8_Witness ==
    /\ last.op = "refresh"
    /\ facts # <<>>
    /\ queue # <<>>

\* C9 as stated: when the completion signal of a performAction call is
\* delivered, the action's effect has been applied.  Signals are delivered
\* and updaters run in call order, so this says that no queued updater
\* belongs to a call whose signal was delivered: every queued updater still
\* has its signal in flight.
C9_SignalAfterEffect == Len(queue) <= pendingSignals

\* C9 amended: performAction resolves once it has handed the updater to
\* setFacts: the step that resolves it appends the action to the update
\* queue and nothing else; delivering the signal applies nothing; and a
\* render that ends has run every queued updater.
C9_SignalAfterEnqueue ==
    [][/\ pendingSignals' > pendingSignals
          => /\ Len(queue') = Len(queue) + 1
             /\ SubSeq(queue', 1, Len(queue)) = queue
             /\ queue'[Len(queue')] \in FactAction
             /\ UNCHANGED <<facts, currentFacts>>
       /\ pendingSignals' < pendingSignals
          => UNCHANGED <<facts, currentFacts, queue>>
       /\ (rendering /\ ~rendering') => queue' = <<>>]_vars

\* The signal of a save has been delivered while its updater is still queued
\* and the record is not in the collection.
C9_Witness ==
    /\ ~rendering
    /\ pendingSignals = 0
    /\ Len(queue) = 1
    /\ queue[1].type = "save"
    /\ ~HasId(currentFacts, queue[1].factId)
    /\ HasId(ApplyAll(currentFacts, queue, now), queue[1].factId)

\* C10 as stated: in every state the facts value the hook exposes equals
\* the collection that results from all the actions performed so far.
C10_FactsAlwaysCurrent == facts = ApplyAll(currentFacts, queue, now)

\* C10 amended: facts is the collection as of the last render: between
\* renders it equals the hook state, which holds the effect of every action
\* whose updater has run and of none that is still queued.
C10_FactsAsOfLastRender == ~rendering => facts = currentFacts

\* A render has ended with records held, and a further save is queued whose
\* record facts does not show.
C10_Witness ==
    /\ ~rendering
    /\ facts # <<>>
    /\ queue # <<>>
    /\ Len(ApplyAll(currentFacts, queue, now)) > Len(facts)

\* C11: updates issued in one batch do not interleave and none is lost:
\* each updater runs on the value left by the one before it, so running the
\* oldest queued updater leaves unchanged the collection that applying the
\* queued actions one at a time, in call order, will give; and a render ends
\* only when every queued updater has run, returning that collection.
C11_BatchInOrder ==
    [][/\ UpdateStep
          => ApplyAll(currentFacts', queue', now)
                 = ApplyAll(currentFacts, queue, now)
       /\ (rendering /\ ~rendering')
          => queue = <<>> /\ facts' = currentFacts]_vars

\* Two saves with distinct ids were pending in one batch (facts is still
\* empty) and both records are in the hook state, in call order.
C11_Witness ==
    /\ rendering
    /\ facts = <<>>
    /\ RanSave
    /\ Len(last.before) = 1
    /\ Len(currentFacts) = 2
    /\ currentFacts[1] = last.before[1]
    /\ currentFacts[2].id = last.action.factId

\* C12: no update in place: in every step a held record either stays in
\* the collection with the same id, text, status and createdAt, or the step
\* runs a discard naming its id; every held record has status "saved"; and
\* a record enters only through a save of an id that was not held.
C12_NoUpdateInPlace ==
    [][currentFacts' # currentFacts =>
          /\ \A i \in 1..Len(currentFacts) :
                 \/ \E j \in 1..Len(currentFacts') :
                        currentFacts'[j] = currentFacts[i]
                 \/ /\ UpdateStep
                    /\ Applied.type = "discard"
                    /\ Applied.factId = currentFacts[i].id
          /\ \A j \in 1..Len(currentFacts') :
                 /\ currentFacts'[j].status = "saved"
                 /\ (\A i \in 1..Len(currentFacts) :
                         currentFacts[i] # currentFacts'[j])
                    => /\ UpdateStep
                       /\ Applied.type = "save"
                       /\ Applied.factId = currentFacts'[j].id
                       /\ ~HasId(currentFacts, Applied.factId)]_vars

\* A save of a held id has run at a later time than the record's creation,
\* on a collection of two records, and the collection is as it was.
C12_Witness ==
    /\ RanSave
    /\ Len(last.before) = 2
    /\ HasId(last.before, last.action.factId)
    /\ Trim(FactTextOrEmpty(last.action)) # <<>>
    /\ last.before[PosOf(last.before, last.action.factId)].createdAt
           # ToISOString(now)
    /\ currentFacts = last.before

\* A collection holds only well-formed records: the four fields, status
\* "saved".
WellFormed(fs) ==
    \A i \in 1..Len(fs) :
        /\ DOMAIN fs[i] = {"id", "text", "status", "createdAt"}
        /\ fs[i].id \in Ids
        /\ fs[i].status = "saved"

\* C13: performAction never produces an error: in every reachable state,
\* whatever actions were dispatched (valid or not), no updater has thrown an
\* exception, and neither the hook state nor facts holds an error value.
C13_NoError ==
    /\ failure = "none"
    /\ WellFormed(currentFacts)
    /\ WellFormed(facts)

\* A save with no factText has run on a collection that holds its id, and a
\* discard of an id the collection does not hold is queued behind it; no
\* exception was thrown and the collection is as it was.
C13_Witness ==
    /\ RanSave
    /\ "factText" \notin DOMAIN last.action
    /\ HasId(last.before, last.action.factId)
    /\ currentFacts = last.before
    /\ failure = "none"
    /\ queue # <<>>
    /\ queue[1].type = "discard"
    /\ ~HasId(currentFacts, queue[1].factId)

\* C14: store instances are independent: a performAction call, an update, a
\* render or a refresh of one instance leaves the facts, hook state and
\* update queue of the other instance unchanged.
C14_Independent ==
    [][/\ (\/ pendingSignals' > pendingSignals
           \/ <<facts, currentFacts, queue, rendering>>'
                  # <<facts, currentFacts, queue, rendering>>
           \/ (last.op # "refresh" /\ last'.op = "refresh"))
          => other' = other
       /\ (\/ other' # other
           \/ (last.op # "refreshOther" /\ last'.op = "refreshOther"))
          => UNCHANGED <<facts, currentFacts, queue, rendering>>]_vars

\* Both instances have rendered, each holding a record the other does not
\* hold, and the second has a further action pending.
C14_Witness ==
    /\ ~rendering
    /\ ~other.rendering
    /\ facts # <<>>
    /\ other.facts # <<>>
    /\ IdsOf(facts) \cap IdsOf(other.facts) = {}
    /\ queue = <<>>
    /\ other.queue # <<>>

----------------------------------------------------------------------------
\* Vocabulary of the properties of the action history.

\* Entry i of the log is a save of x with a non-empty trimmed text / a
\* discard of x.
LoggedText(i) == Trim(FactTextOrEmpty(log[i].action))
ValidSave(i, x) ==
    /\ log[i].action.type = "save"
    /\ log[i].action.factId = x
    /\ LoggedText(i) # <<>>
IsDiscard(i, x) ==
    log[i].action.type = "discard" /\ log[i].action.factId = x

Max(S) == CHOOSE m \in S : \A n \in S : n <= m
Min(S) == CHOOSE m \in S : \A n \in S : m <= n
LastDiscard(x) == Max({0} \cup {i \in 1..Len(log) : IsDiscard(i, x)})
\* The saves of x with a non-empty text that no discard of x follows.
SavesSince(x) == {i \in (LastDiscard(x) + 1)..Len(log) : ValidSave(i, x)}

\* The collection after the first n logged actions, from the empty one.
RECURSIVE Replay(_)
Replay(n) ==
    IF n = 0 THEN <<>>
    ELSE Updater(Replay(n - 1), log[n].action, log[n].at)

\* C15: membership is determined by the action history: a record with id x
\* is held if and only if the history has a save of x with a non-empty
\* trimmed text that no discard of x follows, and its text is the trimmed
\* text of the earliest such save after the last discard of x.
C15_MembershipByHistory ==
    \A x \in Ids :
        /\ HasId(currentFacts, x) <=> SavesSince(x) # {}
        /\ SavesSince(x) # {}
           => currentFacts[PosOf(currentFacts, x)].text
                  = LoggedText(Min(SavesSince(x)))

\* "a" was saved, discarded, saved with another text and saved once more.
C15_Witness ==
    /\ Len(log) = 4
    /\ ValidSave(1, "a")
    /\ IsDiscard(2, "a")
    /\ ValidSave(3, "a")
    /\ ValidSave(4, "a")
    /\ LoggedText(3) # LoggedText(1)
    /\ LoggedText(4) # LoggedText(3)
    /\ HasId(currentFacts, "a")

\* C16: an id can be reused after its record is discarded: when the last
\* action is a save of x with a non-empty trimmed text, and before it a held
\* record of x was discarded with no save of x in between, the collection
\* ends with a record of x that carries the new text.
C16_IdReuse ==
    \A x \in Ids :
        LET n == Len(log) IN
        (/\ n >= 3
         /\ ValidSave(n, x)
         /\ \E h, i \in 1..(n - 1) :
                /\ h < i
                /\ ValidSave(h, x)
                /\ IsDiscard(i, x)
                /\ \A k \in (h + 1)..(i - 1) : ~IsDiscard(k, x)
                /\ \A k \in (i + 1)..(n - 1) : ~ValidSave(k, x))
        => /\ currentFacts # <<>>
           /\ currentFacts[Len(currentFacts)].id = x
           /\ currentFacts[Len(currentFacts)].text = LoggedText(n)
           /\ currentFacts[Len(currentFacts)].status = "saved"
           /\ currentFacts[Len(currentFacts)].createdAt = ToISOString(log[n].at)
           /\ \A j \in 1..(Len(currentFacts) - 1) : currentFacts[j].id # x

\* "a" was first, "b" came after it, "a" was discarded and saved again with
\* another text: it is now behind "b".
C16_Witness ==
    /\ Len(log) = 4
    /\ ValidSave(1, "a")
    /\ ValidSave(2, "b")
    /\ IsDiscard(3, "a")
    /\ ValidSave(4, "a")
    /\ LoggedText(4) # LoggedText(1)
    /\ Len(currentFacts) = 2
    /\ currentFacts[1].id = "b"
    /\ currentFacts[2].text = LoggedText(4)

\* C17: a save of an id that is not held, with a non-empty trimmed text,
\* followed by a discard of that id gives back the collection as it was;
\* and a second discard of the same id changes nothing.
C17_RoundTrip ==
    LET n == Len(log) IN
    n >= 2 =>
        \A x \in Ids :
            /\ (/\ IsDiscard(n, x)
                /\ ValidSave(n - 1, x)
                /\ ~HasId(Replay(n - 2), x))
               => currentFacts = Replay(n - 2)
            /\ (IsDiscard(n, x) /\ IsDiscard(n - 1, x))
               => currentFacts = Replay(n - 1)

\* With "b" held, "a" was saved, discarded and discarded again: "b" alone
\* is held, as before the save.
C17_Witness ==
    /\ Len(log) = 4
    /\ ValidSave(1, "b")
    /\ ValidSave(2, "a")
    /\ IsDiscard(3, "a")
    /\ IsDiscard(4, "a")
    /\ Len(currentFacts) = 1
    /\ currentFacts = Replay(1)

====
